---------------------------- MODULE Spec2Model ----------------------------
(***************************************************************************)
(* A model of ucoin's transaction core (src/src/main.rs): Transaction,     *)
(* SignedTransaction (new / sign / hash / verify, JSON encoding and        *)
(* decoding) and the WorldState ledger.                                    *)
(*                                                                         *)
(* Text (a Rust String) is a sequence of one-character strings; bytes (a   *)
(* Vec<u8> or &[u8]) are a sequence of numbers in 0..255.                  *)
(***************************************************************************)
EXTENDS Integers, Sequences, FiniteSets, TLC

(***************************************************************************)
(* Bounds of the model.                                                    *)
(***************************************************************************)
\* transactions held at once (created, or received from outside)
MaxTx == 2
\* transactions held at once in the runs that build a chain of parents
MaxChain == 3
\* length in bytes of a public key and of a secret key (Falcon-1024: 1793 / 2305)
KeyLen == 2

(***************************************************************************)
(* Characters and bytes.                                                   *)
(***************************************************************************)
\* the printable ASCII characters in code order: 32 (space) to 95 (_), and
\* 97 (a) to 126 (~)
PrintableLow ==
  << " ", "!", "\"", "#", "$", "%", "&", "'", "(", ")", "*", "+", ",", "-", ".", "/",
     "0", "1", "2", "3", "4", "5", "6", "7", "8", "9", ":", ";", "<", "=", ">", "?",
     "@", "A", "B", "C", "D", "E", "F", "G", "H", "I", "J", "K", "L", "M", "N", "O",
     "P", "Q", "R", "S", "T", "U", "V", "W", "X", "Y", "Z", "[", "\\", "]", "^", "_" >>

PrintableHigh ==
  << "a", "b", "c", "d", "e", "f", "g", "h", "i", "j", "k", "l", "m", "n", "o",
     "p", "q", "r", "s", "t", "u", "v", "w", "x", "y", "z", "{", "|", "}", "~" >>

Chars == { PrintableLow[i] : i \in 1..Len(PrintableLow) }
           \cup { PrintableHigh[i] : i \in 1..Len(PrintableHigh) }

\* the byte of a character (UTF-8 of an ASCII character is its code)
OrdOf ==
  [ c \in Chars |->
      IF \E i \in 1..Len(PrintableLow) : PrintableLow[i] = c
        THEN 31 + (CHOOSE i \in 1..Len(PrintableLow) : PrintableLow[i] = c)
        ELSE 96 + (CHOOSE i \in 1..Len(PrintableHigh) : PrintableHigh[i] = c) ]

\* str::as_bytes
as_bytes(text) == [ i \in 1..Len(text) |-> OrdOf[text[i]] ]

(***************************************************************************)
(* base64ct::Base64 (the standard alphabet, padded, strict).               *)
(***************************************************************************)
B64Chars ==
  << "A", "B", "C", "D", "E", "F", "G", "H", "I", "J", "K", "L", "M", "N", "O", "P",
     "Q", "R", "S", "T", "U", "V", "W", "X", "Y", "Z", "a", "b", "c", "d", "e", "f",
     "g", "h", "i", "j", "k", "l", "m", "n", "o", "p", "q", "r", "s", "t", "u", "v",
     "w", "x", "y", "z", "0", "1", "2", "3", "4", "5", "6", "7", "8", "9", "+", "/" >>

B64Set == { B64Chars[i] : i \in 1..64 }

B64Val == [ c \in B64Set |-> (CHOOSE i \in 1..64 : B64Chars[i] = c) - 1 ]

RECURSIVE B64EncodeFrom(_, _)
B64EncodeFrom(b, i) ==
  LET n == Len(b) - i + 1 IN
  IF n <= 0 THEN << >>
  ELSE IF n = 1 THEN
    << B64Chars[(b[i] \div 4) + 1], B64Chars[((b[i] % 4) * 16) + 1], "=", "=" >>
  ELSE IF n = 2 THEN
    << B64Chars[(b[i] \div 4) + 1],
       B64Chars[((b[i] % 4) * 16 + (b[i+1] \div 16)) + 1],
       B64Chars[((b[i+1] % 16) * 4) + 1], "=" >>
  ELSE
    << B64Chars[(b[i] \div 4) + 1],
       B64Chars[((b[i] % 4) * 16 + (b[i+1] \div 16)) + 1],
       B64Chars[((b[i+1] % 16) * 4 + (b[i+2] \div 64)) + 1],
       B64Chars[(b[i+2] % 64) + 1] >> \o B64EncodeFrom(b, i + 3)

\* Base64::encode_string
Base64_encode_string(bytes) == B64EncodeFrom(bytes, 1)

\* the bytes of the four-character block that starts at s[i]; a pad character
\* counts as zero bits here and drops the bytes it stands for
RECURSIVE B64DecodeFrom(_, _)
B64DecodeFrom(s, i) ==
  IF i > Len(s) THEN << >>
  ELSE
    LET v(k) == IF s[i+k] = "=" THEN 0 ELSE B64Val[s[i+k]]
        b1 == v(0) * 4 + (v(1) \div 16)
        b2 == (v(1) % 16) * 16 + (v(2) \div 4)
        b3 == (v(2) % 4) * 64 + v(3)
        blk == IF s[i+2] = "=" THEN << b1 >>
               ELSE IF s[i+3] = "=" THEN << b1, b2 >>
               ELSE << b1, b2, b3 >>
    IN blk \o B64DecodeFrom(s, i + 4)

\* Base64::decode_vec: Ok(bytes) or Err. The decoder is strict: only text that
\* is the encoding of some bytes decodes (alphabet, length, padding and the
\* unused bits of the last block are all checked).
Base64_decode_vec(s) ==
  LET shape == /\ Len(s) % 4 = 0
               /\ \A i \in 1..Len(s) :
                     \/ s[i] \in B64Set
                     \/ s[i] = "=" /\ i >= Len(s) - 1 /\ (i = Len(s) \/ s[Len(s)] = "=")
      bytes == IF shape THEN B64DecodeFrom(s, 1) ELSE << >>
  IN IF shape /\ Base64_encode_string(bytes) = s
       THEN [ ok |-> TRUE, val |-> bytes ]
       ELSE [ ok |-> FALSE, val |-> << >> ]

(***************************************************************************)
(* serde_json::to_string of the derived Serialize implementations.         *)
(***************************************************************************)
Digits == << "0", "1", "2", "3", "4", "5", "6", "7", "8", "9" >>

\* a u64 in decimal
RECURSIVE JsonU64(_)
JsonU64(n) ==
  IF n < 10 THEN << Digits[n + 1] >>
  ELSE JsonU64(n \div 10) \o << Digits[(n % 10) + 1] >>

\* (a variant of JsonEscape that writes every character as it is)
JsonEscape_raw(s, i) == SubSeq(s, i, Len(s))

\* the body of a JSON string: a quote and a backslash are escaped
RECURSIVE JsonEscape(_, _)
JsonEscape(s, i) ==
  IF i > Len(s) THEN << >>
  ELSE (IF s[i] = "\"" \/ s[i] = "\\" THEN << "\\", s[i] >> ELSE << s[i] >>)
         \o JsonEscape(s, i + 1)

JsonString(s) == << "\"" >> \o JsonEscape(s, 1) \o << "\"" >>

\* a Vec<String>
RECURSIVE JsonStringsFrom(_, _)
JsonStringsFrom(a, i) ==
  IF i > Len(a) THEN << >>
  ELSE (IF i > 1 THEN << "," >> ELSE << >>) \o JsonString(a[i])
         \o JsonStringsFrom(a, i + 1)

JsonStringArray(a) == << "[" >> \o JsonStringsFrom(a, 1) \o << "]" >>

JsonKey(name) == << "\"" >> \o name \o << "\"", ":" >>

K_parents     == << "p", "a", "r", "e", "n", "t", "s" >>
K_sender      == << "s", "e", "n", "d", "e", "r" >>
K_timestamp   == << "t", "i", "m", "e", "s", "t", "a", "m", "p" >>
K_amount      == << "a", "m", "o", "u", "n", "t" >>
K_receiver    == << "r", "e", "c", "e", "i", "v", "e", "r" >>
K_transaction == << "t", "r", "a", "n", "s", "a", "c", "t", "i", "o", "n" >>
K_signature   == << "s", "i", "g", "n", "a", "t", "u", "r", "e" >>

\* serde_json::to_string(&Transaction): the fields in declaration order
Transaction_to_string(t) ==
  << "{" >> \o JsonKey(K_parents) \o JsonStringArray(t.parents)
    \o << "," >> \o JsonKey(K_sender) \o JsonString(t.sender)
    \o << "," >> \o JsonKey(K_timestamp) \o JsonU64(t.timestamp)
    \o << "," >> \o JsonKey(K_amount) \o JsonU64(t.amount)
    \o << "," >> \o JsonKey(K_receiver) \o JsonString(t.receiver)
    \o << "}" >>

\* serde_json::to_string(&SignedTransaction): the nested transaction (the
\* flatten attribute is commented out), then the signature
SignedTransaction_to_string(st) ==
  << "{" >> \o JsonKey(K_transaction) \o Transaction_to_string(st.transaction)
    \o << "," >> \o JsonKey(K_signature) \o JsonString(st.signature)
    \o << "}" >>

(***************************************************************************)
(* serde_json::from_str of the derived Deserialize implementations, for    *)
(* compact text with the fields in declaration order (what to_string       *)
(* writes). serde also accepts whitespace, other field orders and the      *)
(* other escapes; text of those shapes is not fed to this model.           *)
(* Each parser returns [ok, val, next]: next is the index after the value. *)
(***************************************************************************)
ParseFail == [ ok |-> FALSE, val |-> << >>, next |-> 0 ]

HasLit(s, i, lit) ==
  /\ i >= 1
  /\ i + Len(lit) - 1 <= Len(s)
  /\ SubSeq(s, i, i + Len(lit) - 1) = lit

RECURSIVE ParseStringBody(_, _, _)
ParseStringBody(s, j, acc) ==
  IF j > Len(s) THEN ParseFail
  ELSE IF s[j] = "\"" THEN [ ok |-> TRUE, val |-> acc, next |-> j + 1 ]
  ELSE IF s[j] = "\\" THEN
    IF j + 1 <= Len(s) /\ (s[j+1] = "\"" \/ s[j+1] = "\\")
      THEN ParseStringBody(s, j + 2, Append(acc, s[j+1]))
      ELSE ParseFail
  ELSE ParseStringBody(s, j + 1, Append(acc, s[j]))

ParseString(s, i) ==
  IF HasLit(s, i, << "\"" >>) THEN ParseStringBody(s, i + 1, << >>) ELSE ParseFail

DigitVal(c) == (CHOOSE d \in 1..10 : Digits[d] = c) - 1

IsDigit(s, j) == j >= 1 /\ j <= Len(s) /\ \E d \in 1..10 : Digits[d] = s[j]

RECURSIVE ParseU64Body(_, _, _)
ParseU64Body(s, j, acc) ==
  IF IsDigit(s, j) THEN ParseU64Body(s, j + 1, acc * 10 + DigitVal(s[j]))
  ELSE [ ok |-> TRUE, val |-> acc, next |-> j ]

\* a number: at least one digit, and no leading zero before another digit
ParseU64(s, i) ==
  IF ~IsDigit(s, i) THEN ParseFail
  ELSE IF s[i] = "0" /\ IsDigit(s, i + 1) THEN ParseFail
  ELSE ParseU64Body(s, i, 0)

RECURSIVE ParseStringsRest(_, _, _)
ParseStringsRest(s, j, acc) ==
  IF HasLit(s, j, << "]" >>) THEN [ ok |-> TRUE, val |-> acc, next |-> j + 1 ]
  ELSE IF HasLit(s, j, << "," >>) THEN
    LET e == ParseString(s, j + 1) IN
    IF e.ok THEN ParseStringsRest(s, e.next, Append(acc, e.val)) ELSE ParseFail
  ELSE ParseFail

ParseStringArray(s, i) ==
  IF ~HasLit(s, i, << "[" >>) THEN ParseFail
  ELSE IF HasLit(s, i + 1, << "]" >>) THEN [ ok |-> TRUE, val |-> << >>, next |-> i + 2 ]
  ELSE LET e == ParseString(s, i + 1) IN
       IF e.ok THEN ParseStringsRest(s, e.next, << e.val >>) ELSE ParseFail

\* the index after `lit` at i, or 0
Skip(s, i, lit) == IF HasLit(s, i, lit) THEN i + Len(lit) ELSE 0

ParseTransaction(s, i) ==
  LET p  == ParseStringArray(s, Skip(s, i, << "{" >> \o JsonKey(K_parents)))
      sd == IF p.ok THEN ParseString(s, Skip(s, p.next, << "," >> \o JsonKey(K_sender)))
                    ELSE ParseFail
      ts == IF sd.ok THEN ParseU64(s, Skip(s, sd.next, << "," >> \o JsonKey(K_timestamp)))
                     ELSE ParseFail
      am == IF ts.ok THEN ParseU64(s, Skip(s, ts.next, << "," >> \o JsonKey(K_amount)))
                     ELSE ParseFail
      rc == IF am.ok THEN ParseString(s, Skip(s, am.next, << "," >> \o JsonKey(K_receiver)))
                     ELSE ParseFail
  IN IF rc.ok /\ HasLit(s, rc.next, << "}" >>)
       THEN [ ok |-> TRUE,
              val |-> [ parents |-> p.val, sender |-> sd.val, timestamp |-> ts.val,
                        amount |-> am.val, receiver |-> rc.val ],
              next |-> rc.next + 1 ]
       ELSE ParseFail

\* serde_json::from_str::<SignedTransaction>: Ok(value) or Err; nothing may
\* follow the value
SignedTransaction_from_str(s) ==
  LET t  == ParseTransaction(s, Skip(s, 1, << "{" >> \o JsonKey(K_transaction)))
      sg == IF t.ok THEN ParseString(s, Skip(s, t.next, << "," >> \o JsonKey(K_signature)))
                    ELSE ParseFail
  IN IF sg.ok /\ HasLit(s, sg.next, << "}" >>) /\ sg.next = Len(s)
       THEN [ ok |-> TRUE, val |-> [ transaction |-> t.val, signature |-> sg.val ] ]
       ELSE [ ok |-> FALSE, val |-> << >> ]

(***************************************************************************)
(* blake3::hash. The digest is scaled down from 32 bytes to 4: two         *)
(* polynomial hashes modulo a prime, two bytes each. Like blake3 it is a   *)
(* deterministic function of every input byte with a fixed-size output.    *)
(***************************************************************************)
\* h folded over b[i..last]: h := (h * m + byte + 1) mod p for each byte.
\* (The test on hn makes TLC compute it before the call, not after.)
RECURSIVE PolyFold(_, _, _, _, _, _)
PolyFold(b, i, last, h, m, p) ==
  IF i > last THEN h
  ELSE LET hn == (h * m + b[i] + 1) % p
       IN IF hn >= 0 THEN PolyFold(b, i + 1, last, hn, m, p) ELSE hn

\* the same fold over all of b, taken 16 bytes at a time to keep TLC's
\* recursion shallow
RECURSIVE PolyHash(_, _, _, _, _)
PolyHash(b, i, h, m, p) ==
  IF i > Len(b) THEN h
  ELSE LET last == IF i + 15 < Len(b) THEN i + 15 ELSE Len(b)
           hn   == PolyFold(b, i, last, h, m, p)
       IN IF hn >= 0 THEN PolyHash(b, last + 1, hn, m, p) ELSE hn

Digest4(b, h0, m1, m2) ==
  LET h1 == PolyHash(b, 1, h0, m1, 65521)
      h2 == PolyHash(b, 1, h0 + 6, m2, 65519)
  IN << h1 \div 256, h1 % 256, h2 \div 256, h2 % 256 >>

blake3_hash(bytes) == Digest4(bytes, 1, 257, 263)

(***************************************************************************)
(* oqs::sig::Sig (Falcon-1024), scaled down. A key is KeyLen bytes. A      *)
(* signature is a salt byte followed by a 4-byte tag of (salt, secret key, *)
(* message): signing is randomized through the salt, and a signature       *)
(* verifies under a public key exactly when it is the tag the matching     *)
(* secret key gives for that salt and message.                             *)
(***************************************************************************)
KeyIds == 1..2

\* sig.keypair(): the i-th key pair the generator can return
Keypair(i) ==
  [ pk |-> [ k \in 1..KeyLen |-> (37 * i + 11 * k) % 256 ],
    sk |-> [ k \in 1..KeyLen |-> (101 * i + 7 * k + 3) % 256 ] ]

Salts == {0, 200}

SigLen == 1 + 4

\* sig.sign(message, sk), with the salt the signer draws
Sig_sign(message, sk, salt) ==
  << salt >> \o Digest4(<< salt >> \o sk \o message, 3, 269, 271)

\* sig.public_key_from_bytes: Some only for bytes of the key's length
Sig_public_key_from_bytes(bytes) ==
  [ ok |-> Len(bytes) = KeyLen, val |-> bytes ]

\* sig.signature_from_bytes: Some only for bytes no longer than a signature
Sig_signature_from_bytes(bytes) ==
  [ ok |-> Len(bytes) <= SigLen, val |-> bytes ]

\* sig.verify(message, signature, pk).is_ok()
Sig_verify(message, signature, pk) ==
  /\ Len(signature) = SigLen
  /\ \E i \in KeyIds :
       /\ Keypair(i).pk = pk
       /\ signature = Sig_sign(message, Keypair(i).sk, signature[1])

(***************************************************************************)
(* Transaction and SignedTransaction.                                      *)
(***************************************************************************)
\* (a variant of hash_input that serializes the embedded transaction alone)
hash_input_payload(st) == as_bytes(Transaction_to_string(st.transaction))

\* the bytes SignedTransaction::hash digests: the whole value, serialized
hash_input(st) == as_bytes(SignedTransaction_to_string(st))

\* SignedTransaction::hash
hash(st) == Base64_encode_string(blake3_hash(hash_input(st)))

\* (a variant of Transaction_new that collects the parents' hashes last first)
Transaction_new_reversed(parents, pk, amount, receiver, now) ==
  [ parents   |-> [ i \in 1..Len(parents) |-> hash(parents[Len(parents) + 1 - i]) ],
    sender    |-> Base64_encode_string(pk),
    timestamp |-> now,
    amount    |-> amount,
    receiver  |-> Base64_encode_string(receiver) ]

\* Transaction::new; `now` is the wall-clock reading it takes
Transaction_new(parents, pk, amount, receiver, now) ==
  [ parents   |-> [ i \in 1..Len(parents) |-> hash(parents[i]) ],
    sender    |-> Base64_encode_string(pk),
    timestamp |-> now,
    amount    |-> amount,
    receiver  |-> Base64_encode_string(receiver) ]

\* Transaction::sign; `salt` is the randomness of sig.sign
Transaction_sign(self, sk, salt) ==
  LET serialized == Transaction_to_string(self)
      signature  == Sig_sign(as_bytes(serialized), sk, salt)
  IN [ transaction |-> self, signature |-> Base64_encode_string(signature) ]

\* the steps of SignedTransaction::verify after the serialization, for the
\* message bytes and the key text given
verify_with(self, message, keyText) ==
  LET pkBytes    == Base64_decode_vec(keyText)
      pk         == Sig_public_key_from_bytes(pkBytes.val)
      sigBytes   == Base64_decode_vec(self.signature)
      signature  == Sig_signature_from_bytes(sigBytes.val)
  IN IF ~pkBytes.ok \/ ~pk.ok THEN "panic"
     ELSE IF ~sigBytes.ok \/ ~signature.ok THEN "panic"
     ELSE IF Sig_verify(message, signature.val, pk.val) THEN "true"
     ELSE "false"

\* (a variant of verify that serializes the whole SignedTransaction, as hash does)
verify_whole(self) ==
  verify_with(self, as_bytes(SignedTransaction_to_string(self)), self.transaction.sender)

\* (a variant of verify that takes the public key from the receiver field)
verify_receiver_key(self) ==
  verify_with(self, as_bytes(Transaction_to_string(self.transaction)),
              self.transaction.receiver)

\* SignedTransaction::verify: "true", "false", or "panic" when an unwrap fails
verify(self) ==
  LET serialized == Transaction_to_string(self.transaction)
  IN verify_with(self, as_bytes(serialized), self.transaction.sender)

(***************************************************************************)
(* WorldState. The source declares Wallet and WorldState and no operation  *)
(* on them; apply follows section 4.5 of the specification, with the       *)
(* declared u64 balance.                                                   *)
(***************************************************************************)
\* 2^64, scaled down: a balance is a u64
U64Modulus == 16

U64Max == U64Modulus - 1

\* the hashes some wallet has in its history
Known(ws) == UNION { ws[a].history : a \in DOMAIN ws }

HistoryOf(ws, a) == IF a \in DOMAIN ws THEN ws[a].history ELSE {}

\* (a variant of apply_check without check (2), the duplicate test)
apply_check_no_duplicate(ws, st, h) ==
  LET t == st.transaction
      v == verify(st)
  IN IF v = "panic" THEN "panic"
     ELSE IF v = "false" THEN "InvalidSignature"
     ELSE IF t.sender \notin DOMAIN ws THEN "InsufficientFunds"
     ELSE IF ws[t.sender].balance < t.amount THEN "InsufficientFunds"
     ELSE IF \E k \in 1..Len(t.parents) : t.parents[k] \notin Known(ws)
       THEN "UnknownParent"
     ELSE "Applied"

\* the outcome of the checks (1)-(4) of apply, in their order, for a
\* transaction of hash h; verify is SignedTransaction::verify, whose panic
\* ends the call
apply_check(ws, st, h) ==
  LET t == st.transaction
      v == verify(st)
  IN IF v = "panic" THEN "panic"
     ELSE IF v = "false" THEN "InvalidSignature"
     ELSE IF h \in HistoryOf(ws, t.receiver) \cup HistoryOf(ws, t.sender)
       THEN "DuplicateTransaction"
     ELSE IF t.sender \notin DOMAIN ws THEN "InsufficientFunds"
     ELSE IF ws[t.sender].balance < t.amount THEN "InsufficientFunds"
     ELSE IF \E k \in 1..Len(t.parents) : t.parents[k] \notin Known(ws)
       THEN "UnknownParent"
     ELSE "Applied"

\* the debit of step (5): the amount leaves the sender, whose history gains h
apply_debit(ws, st, h) ==
  [ ws EXCEPT ![st.transaction.sender] =
      [ balance |-> @.balance - st.transaction.amount, history |-> @.history \cup {h} ] ]

\* the credit of step (5): a new receiver wallet starts at zero; the amount
\* is added in u64 arithmetic, and the receiver's history gains h
apply_credit(ws, st, h) ==
  LET r  == st.transaction.receiver
      w1 == IF r \in DOMAIN ws THEN ws
            ELSE [ a \in DOMAIN ws \cup {r} |->
                     IF a = r THEN [ balance |-> 0, history |-> {} ] ELSE ws[a] ]
  IN [ w1 EXCEPT ![r] =
         [ balance |-> (@.balance + st.transaction.amount) % U64Modulus,
           history |-> @.history \cup {h} ] ]

\* (a variant of apply_update that credits the receiver and leaves the debit out)
apply_update_no_debit(ws, st, h) == apply_credit(ws, st, h)

\* step (5) of apply: debit the sender, then credit the receiver
apply_update(ws, st, h) == apply_credit(apply_debit(ws, st, h), st, h)

\* (a variant of apply that debits the sender before check (4), the parents)
apply_debit_first(ws, st) ==
  LET h      == hash(st)
      result == apply_check(ws, st, h)
  IN [ result  |-> result,
       wallets |-> IF result = "Applied" THEN apply_update(ws, st, h)
                   ELSE IF result = "UnknownParent" THEN apply_debit(ws, st, h)
                   ELSE ws ]

\* WorldState::apply: its result and the wallets after it; all-or-nothing
apply(ws, st) ==
  LET h      == hash(st)
      result == apply_check(ws, st, h)
  IN [ result  |-> result,
       wallets |-> IF result = "Applied" THEN apply_update(ws, st, h) ELSE ws ]

(***************************************************************************)
(* The state machine.                                                      *)
(***************************************************************************)
VARIABLES
  pool,      \* the SignedTransaction values the program holds, oldest first
  made,      \* for each of them, how it came to be (not program state)
  out,       \* the last call of verify, hash or the JSON round trip, and its result
  wallets,   \* WorldState.wallets: encoded public key -> Wallet
  snapshot,  \* the wallets the WorldState was created with (not program state)
  applyOut   \* the last call of apply and its result; whether its transaction had
             \* been applied before; the transactions applied so far, in order

vars == << pool, made, out, wallets, snapshot, applyOut >>

PkText(i) == Base64_encode_string(Keypair(i).pk)

NoOut == [ op |-> "none", idx |-> 0, val |-> << >> ]
NoApply == [ idx |-> 0, result |-> "none", again |-> FALSE, log |-> << >> ]

NoWallets == [ a \in {} |-> 0 ]

InitPool ==
  /\ pool = << >>
  /\ made = << >>
  /\ out = NoOut
  /\ applyOut = NoApply

\* the program of main: no WorldState is in use
Init ==
  /\ InitPool
  /\ wallets = NoWallets
  /\ snapshot = NoWallets

\* what main's caller varies besides the sender and the signing key: the
\* amount, the receiver, the wall-clock reading and the signer's randomness
SignInputs ==
  { [ amount |-> 1,  r |-> 2, now |-> 0, salt |-> 0 ],
    [ amount |-> 12, r |-> 1, now |-> 1, salt |-> 200 ] }

\* parent lists a caller may pass to Transaction::new: none, one transaction
\* it holds, or two of them in either order
ParentChoices ==
  { << >> } \cup { << i >> : i \in 1..Len(pool) }
            \cup { << p[1], p[2] >> :
                     p \in { q \in (1..Len(pool)) \X (1..Len(pool)) : q[1] # q[2] } }

\* main makes its transactions first and then calls verify, hash, the JSON
\* round trip or apply on them
Making == out.op = "none" /\ applyOut.result = "none"

\* Transaction::new(parents, pk, amount, receiver).sign(sig, sk), as in main
NewSign(parents, s, amount, r, now, k, salt) ==
  /\ Making
  /\ LET t  == Transaction_new([ j \in 1..Len(parents) |-> pool[parents[j]] ],
                               Keypair(s).pk, amount, Keypair(r).pk, now)
         st == Transaction_sign(t, Keypair(k).sk, salt)
     IN /\ pool' = Append(pool, st)
        /\ made' = Append(made, [ how |-> "sign", parents |-> parents, sender |-> s,
                                  signer |-> k, field |-> "" ])
  /\ UNCHANGED << out, wallets, snapshot, applyOut >>

\* the values a tampered field may be given: for a text field a malformed
\* string (a character outside the alphabet, one that JSON escapes), Base64
\* of bytes of a wrong length, another key, another transaction's signature
TamperValues(field) ==
  IF field = "parents"
    THEN { << >>, << << "x" >> >>, << << "\\" >>, << "x", "\"" >> >> }
           \cup { << hash(pool[i]) >> : i \in 1..Len(pool) }
  ELSE IF field = "timestamp" THEN {0, 1, 2}
  ELSE IF field = "amount" THEN {0, 1, 12}
  ELSE IF field = "signature"
    THEN { << "!" >>, Base64_encode_string(<< 1, 2, 3, 4, 5, 6 >>) }
           \cup { pool[i].signature : i \in 1..Len(pool) }
  ELSE { << "!" >>, << "\"" >>, << "A", "A", "A", "A" >> } \cup { PkText(i) : i \in KeyIds }

Fields == { "parents", "sender", "timestamp", "amount", "receiver", "signature" }

WithField(st, field, v) ==
  IF field = "signature" THEN [ st EXCEPT !.signature = v ]
  ELSE [ st EXCEPT !.transaction = [ @ EXCEPT ![field] = v ] ]

FieldOf(st, field) ==
  IF field = "signature" THEN st.signature ELSE st.transaction[field]

\* signed here by the sender's own key
SignedBySender(i) == made[i].how = "sign" /\ made[i].signer = made[i].sender

\* a SignedTransaction that differs in one field from one validly signed here
\* (the struct is plain data and Deserialize: such a value arrives from
\* outside); one such value is held at a time
Tamper(i, field, v) ==
  /\ Making
  /\ i \in 1..Len(pool)
  /\ SignedBySender(i)
  /\ \A j \in 1..Len(made) : made[j].how = "sign"
  /\ v # FieldOf(pool[i], field)
  /\ pool' = Append(pool, WithField(pool[i], field, v))
  /\ made' = Append(made, [ how |-> "tamper", parents |-> << i >>, sender |-> 0,
                            signer |-> 0, field |-> field ])
  /\ UNCHANGED << out, wallets, snapshot, applyOut >>

\* transaction.verify(&sig), on the transaction last made or received
Verify ==
  /\ Len(pool) > 0
  /\ out' = [ op |-> "verify", idx |-> Len(pool), val |-> verify(pool[Len(pool)]) ]
  /\ UNCHANGED << pool, made, wallets, snapshot, applyOut >>

\* transaction.hash()
Hash ==
  /\ Len(pool) > 0
  /\ out' = [ op |-> "hash", idx |-> Len(pool), val |-> hash(pool[Len(pool)]) ]
  /\ UNCHANGED << pool, made, wallets, snapshot, applyOut >>

\* serde_json::to_string(&transaction), then serde_json::from_str of that text
RoundTrip ==
  /\ Len(pool) > 0
  /\ LET serialized == SignedTransaction_to_string(pool[Len(pool)])
     IN out' = [ op |-> "json", idx |-> Len(pool),
                 val |-> SignedTransaction_from_str(serialized) ]
  /\ UNCHANGED << pool, made, wallets, snapshot, applyOut >>

\* world_state.apply(transaction)
Apply(i) ==
  /\ i \in 1..Len(pool)
  /\ LET done == apply(wallets, pool[i])
     IN /\ wallets' = done.wallets
        /\ applyOut' =
             [ idx    |-> i,
               result |-> done.result,
               again  |-> \E n \in 1..Len(applyOut.log) : applyOut.log[n] = pool[i],
               log    |-> IF done.result = "Applied" THEN Append(applyOut.log, pool[i])
                                                    ELSE applyOut.log ]
  /\ UNCHANGED << pool, made, out, snapshot >>

\* main and its callers: transactions are made with any key pair as sender
\* and any as signer, then verified, hashed, written and read back
Next ==
  \/ /\ Len(pool) < MaxTx
     /\ \E parents \in ParentChoices, s \in KeyIds, k \in KeyIds, in \in SignInputs :
          NewSign(parents, s, in.amount, in.r, in.now, k, in.salt)
  \/ Verify
  \/ Hash
  \/ RoundTrip

Spec == Init /\ [][Next]_vars

\* transactions signed by their senders, and ones changed on the way in
NextWire ==
  \/ /\ Len(pool) < MaxTx
     /\ \E parents \in ParentChoices, s \in KeyIds, in \in SignInputs :
          NewSign(parents, s, in.amount, in.r, in.now, s, in.salt)
  \/ /\ Len(pool) < MaxTx
     /\ \E i \in 1..Len(pool), field \in Fields :
          \E v \in TamperValues(field) : Tamper(i, field, v)
  \/ Verify
  \/ Hash
  \/ RoundTrip

SpecWire == Init /\ [][NextWire]_vars

\* chains of parents: each sender signs its own transactions
NextDag ==
  \/ /\ Len(pool) < MaxChain
     /\ \E parents \in ParentChoices, s \in KeyIds :
          NewSign(parents, s, s, 3 - s, 0, s, 0)
  \/ Hash

SpecDag == Init /\ [][NextDag]_vars

\* the wallets a WorldState is created with: none, one funded wallet, two,
\* or two of which one holds the largest balance
SnapBalances == { << >>, << 3 >>, << 3, 3 >>, << 3, U64Max >> }

Snapshots ==
  { [ a \in { PkText(i) : i \in 1..Len(b) } |->
        [ balance |-> b[CHOOSE i \in 1..Len(b) : PkText(i) = a], history |-> {} ] ] :
      b \in SnapBalances }

InitLedger ==
  /\ InitPool
  /\ wallets \in Snapshots
  /\ snapshot = wallets

\* the transfers submitted to the ledger: within and beyond the small
\* balance, a transfer to oneself, and one signed by the wrong key
LedgerInputs ==
  { [ s |-> 1, r |-> 2, amount |-> 1,  k |-> 1 ],
    [ s |-> 1, r |-> 2, amount |-> 12, k |-> 1 ],
    [ s |-> 2, r |-> 1, amount |-> 1,  k |-> 2 ],
    [ s |-> 1, r |-> 1, amount |-> 1,  k |-> 1 ],
    [ s |-> 1, r |-> 2, amount |-> 1,  k |-> 2 ] }

NextLedger ==
  \/ /\ Len(pool) < MaxTx
     /\ \E parents \in { << >>, << Len(pool) >> } \cap ParentChoices, in \in LedgerInputs :
          NewSign(parents, in.s, in.amount, in.r, 0, in.k, 0)
  \/ \E i \in 1..Len(pool) : Apply(i)

SpecLedger == InitLedger /\ [][NextLedger]_vars

(***************************************************************************)
(* Properties.                                                             *)
(***************************************************************************)
\* the transaction the last call of verify, hash or the round trip was about
Subject == pool[out.idx]

SignedByOther(i) == made[i].how = "sign" /\ made[i].signer # made[i].sender

\* C1 (soundness): whenever verify is called on a transaction that
\* Transaction::new built with sender pk and Transaction::sign signed with the
\* matching sk, whatever its parents, amount, receiver and timestamp, it
\* returns true.
C1_Soundness ==
  (out.op = "verify" /\ SignedBySender(out.idx)) => out.val = "true"

\* verify has returned true for a transaction with parents signed by its sender
C1_Witness ==
  /\ out.op = "verify"
  /\ SignedBySender(out.idx)
  /\ Len(Subject.transaction.parents) > 0
  /\ out.val = "true"

\* C2 (tamper detection), as claimed: whenever verify is called on a validly
\* signed transaction in which one payload field (parents, sender, timestamp,
\* amount or receiver) was changed and the signature kept, it returns false.
C2_TamperReturnsFalse ==
  (out.op = "verify" /\ made[out.idx].how = "tamper" /\ made[out.idx].field # "signature")
    => out.val = "false"

SenderDecodes(st) ==
  /\ Base64_decode_vec(st.transaction.sender).ok
  /\ Sig_public_key_from_bytes(Base64_decode_vec(st.transaction.sender).val).ok

SignatureDecodes(st) ==
  /\ Base64_decode_vec(st.signature).ok
  /\ Sig_signature_from_bytes(Base64_decode_vec(st.signature).val).ok

\* C3 (malformed input), as claimed: whenever verify is called on a
\* transaction whose sender is not a decodable public key or whose signature
\* is not a decodable signature, it returns false.
C3_MalformedReturnsFalse ==
  (out.op = "verify" /\ (~SenderDecodes(Subject) \/ ~SignatureDecodes(Subject)))
    => out.val = "false"

\* C4 (forgery rejection): whenever verify is called on a transaction whose
\* sender is the public key of one key pair and which was signed with the
\* secret key of another, it returns false.
C4_ForgeryRejected ==
  (out.op = "verify" /\ SignedByOther(out.idx)) => out.val = "false"

\* verify has returned false for a transaction signed with another pair's key
C4_Witness ==
  /\ out.op = "verify"
  /\ SignedByOther(out.idx)
  /\ out.val = "false"

\* C5 (hash covers the whole signed transaction): any two transactions held
\* that differ, in a payload field or in the signature alone, are encoded to
\* different hash inputs; the string a hash call returned is the hash of
\* every held transaction equal to the one it was called on; and a hash call
\* leaves the transactions unchanged.
C5_HashOfWhole ==
  /\ [](\A i, j \in 1..Len(pool) :
          pool[i] # pool[j] => hash_input(pool[i]) # hash_input(pool[j]))
  /\ [](out.op = "hash" =>
          \A j \in 1..Len(pool) : pool[j] = Subject => hash(pool[j]) = out.val)
  /\ [][out'.op = "hash" => pool' = pool]_vars

\* hash was called while two transactions with the same payload and different
\* signatures are held
C5_Witness ==
  /\ out.op = "hash"
  /\ \E i, j \in 1..Len(pool) :
       /\ pool[i].transaction = pool[j].transaction
       /\ pool[i].signature # pool[j].signature

\* the held transactions whose hash appears in the parents of transaction i
ParentsOf(i, H) ==
  { j \in 1..Len(pool) :
      \E k \in 1..Len(pool[i].transaction.parents) : pool[i].transaction.parents[k] = H[j] }

RECURSIVE AncestorsOf(_, _, _)
AncestorsOf(i, H, depth) ==
  IF depth = 0 THEN {}
  ELSE ParentsOf(i, H) \cup UNION { AncestorsOf(j, H, depth - 1) : j \in ParentsOf(i, H) }

\* C9 (parents form a DAG): the parents list of every transaction made by
\* Transaction::new is the list of hash() values of the signed transactions
\* passed in, in the same order (empty when none); each of them was made
\* earlier; and no transaction is its own ancestor.
C9_ParentsAreEarlierHashes ==
  LET H == [ j \in 1..Len(pool) |-> hash(pool[j]) ]
  IN \A i \in 1..Len(pool) :
       made[i].how = "sign" =>
         /\ Len(pool[i].transaction.parents) = Len(made[i].parents)
         /\ \A k \in 1..Len(made[i].parents) :
              /\ made[i].parents[k] < i
              /\ pool[i].transaction.parents[k] = H[made[i].parents[k]]
         /\ i \notin AncestorsOf(i, H, Len(pool))

\* a transaction was made with two parents, the later one first, one of which
\* has the other as its parent
C9_Witness ==
  /\ Len(pool) >= 3
  /\ made[3].parents = << 2, 1 >>
  /\ made[2].parents = << 1 >>
  /\ pool[2] # pool[1]

\* C10 (round trip): whenever a transaction is written with to_string and the
\* text read back with from_str, reading succeeds and gives a transaction with
\* equal parents, sender, timestamp, amount, receiver and signature, whose
\* hash() and verify() results are those of the original.
C10_RoundTrip ==
  out.op = "json" =>
    /\ out.val.ok
    /\ out.val.val.transaction.parents = Subject.transaction.parents
    /\ out.val.val.transaction.sender = Subject.transaction.sender
    /\ out.val.val.transaction.timestamp = Subject.transaction.timestamp
    /\ out.val.val.transaction.amount = Subject.transaction.amount
    /\ out.val.val.transaction.receiver = Subject.transaction.receiver
    /\ out.val.val.signature = Subject.signature
    /\ hash(out.val.val) = hash(Subject)
    /\ verify(out.val.val) = verify(Subject)

\* a transaction whose parents hold two strings, with a quote and a backslash
\* in them, was written and read back
C10_Witness ==
  /\ out.op = "json"
  /\ out.val.ok
  /\ Len(Subject.transaction.parents) = 2
  /\ Subject.transaction.parents[1] = << "\\" >>

RECURSIVE SumOver(_, _)
SumOver(ws, D) ==
  IF D = {} THEN 0
  ELSE LET a == CHOOSE x \in D : TRUE IN ws[a].balance + SumOver(ws, D \ {a})

\* the sum of all wallet balances
SumBalances(ws) == SumOver(ws, DOMAIN ws)

BalanceOf(ws, a) == IF a \in DOMAIN ws THEN ws[a].balance ELSE 0

\* the last step was a successful apply that moved exactly the amount: out of
\* the sender and into the receiver (a wallet new to the ledger counting as
\* zero before), with no wrap-around
MovedExactly ==
  applyOut'.result = "Applied" =>
    LET t == pool[applyOut'.idx].transaction
    IN IF t.sender = t.receiver
         THEN wallets'[t.sender].balance = BalanceOf(wallets, t.sender)
         ELSE /\ wallets'[t.sender].balance = BalanceOf(wallets, t.sender) - t.amount
              /\ wallets'[t.receiver].balance = BalanceOf(wallets, t.receiver) + t.amount

InRange == \A a \in DOMAIN wallets : wallets[a].balance \in 0..U64Max

C7_DoubleApplyRejected ==
  /\ applyOut.result = "Applied" =>
       LET st == pool[applyOut.idx]
       IN /\ hash(st) \in HistoryOf(wallets, st.transaction.sender)
          /\ hash(st) \in HistoryOf(wallets, st.transaction.receiver)
  /\ applyOut.again => applyOut.result = "DuplicateTransaction"
  /\ \A m, n \in 1..Len(applyOut.log) : applyOut.log[m] = applyOut.log[n] => m = n

\* the first transaction applied was applied again after another one had been
\* applied, and was rejected
C7_Witness ==
  /\ applyOut.again
  /\ applyOut.result = "DuplicateTransaction"
  /\ Len(applyOut.log) = 2
  /\ applyOut.log[1] = pool[applyOut.idx]

Rejections ==
  { "InvalidSignature", "DuplicateTransaction", "InsufficientFunds", "UnknownParent" }

=============================================================================
